---- MODULE Spec2Model ----
(***************************************************************************)
(* Model of app.py, the 2026 Olympic Fantasy Hockey Tracker: the name      *)
(* normalizer, the first-match lookup, the roster/stats merge loop, the    *)
(* standings aggregation and the session's stats table with its manual     *)
(* "Process Update" paste handler.                                         *)
(*                                                                         *)
(* Text is modelled as a sequence of one-character strings.  Characters    *)
(* outside ASCII are written by code point: "U0130" is LATIN CAPITAL       *)
(* LETTER I WITH DOT ABOVE, "U0307" is COMBINING DOT ABOVE and "U00B2" is  *)
(* SUPERSCRIPT TWO.                                                        *)
(***************************************************************************)
EXTENDS Integers, Sequences, FiniteSets, TLC

VARIABLES
  session_state, \* st.session_state: a dict that has the key stats_db or is empty
  csv_file,     \* fantasy_roster.csv: whether it exists, and its rows
  roster,       \* the frame load_roster() returned to the running script
  pc,           \* position of the script run
  row_i,        \* index of the roster row the merge loop visits next
  merged_data,  \* the list the merge loop appends to
  match,        \* the merge loop's last find_match result
  standings,    \* the leaderboard frame
  raw_paste,    \* text of the "Paste Stats Table Here" area at the last click
  new_rows,     \* the rows the last "Process Update" click parsed
  norm_in,      \* argument of a call of normalize
  norm_out,     \* its result
  norm_prev,    \* the result of the call before it
  norm_pc,      \* "call" before normalize runs, "ret" after
  norm_calls,   \* how many calls of normalize have returned
  fm_name,      \* first argument of a call of find_match
  fm_table,     \* second argument of a call of find_match
  fm_result,    \* its result
  fm_pc         \* "call" before find_match runs, "ret" after

vars == <<session_state, csv_file, roster, pc, row_i, merged_data, match, standings,
          raw_paste, new_rows, norm_in, norm_out, norm_prev, norm_pc,
          norm_calls,
          fm_name, fm_table, fm_result, fm_pc>>

appVars   == <<session_state, csv_file, roster, pc, row_i, merged_data, match,
               standings, raw_paste, new_rows>>
normVars  == <<norm_in, norm_out, norm_prev, norm_pc, norm_calls>>
matchVars == <<fm_name, fm_table, fm_result, fm_pc>>

\* Python's None, where a row of a frame may stand.
None == [none |-> TRUE]

(***************************************************************************)
(* Characters                                                              *)
(***************************************************************************)
LowerLetters ==
  {"a","b","c","d","e","f","g","h","i","j","k","l","m",
   "n","o","p","q","r","s","t","u","v","w","x","y","z"}

UpperLetters ==
  {"A","B","C","D","E","F","G","H","I","J","K","L","M",
   "N","O","P","Q","R","S","T","U","V","W","X","Y","Z"}

AsciiDigits == {"0","1","2","3","4","5","6","7","8","9"}

ToLower ==
  ("A" :> "a") @@ ("B" :> "b") @@ ("C" :> "c") @@ ("D" :> "d") @@ ("E" :> "e") @@
  ("F" :> "f") @@ ("G" :> "g") @@ ("H" :> "h") @@ ("I" :> "i") @@ ("J" :> "j") @@
  ("K" :> "k") @@ ("L" :> "l") @@ ("M" :> "m") @@ ("N" :> "n") @@ ("O" :> "o") @@
  ("P" :> "p") @@ ("Q" :> "q") @@ ("R" :> "r") @@ ("S" :> "s") @@ ("T" :> "t") @@
  ("U" :> "u") @@ ("V" :> "v") @@ ("W" :> "w") @@ ("X" :> "x") @@ ("Y" :> "y") @@
  ("Z" :> "z")

\* \w of a str pattern: letters, digits (any Unicode digit) and the underscore.
\* A combining mark is neither \w nor \s.
IsWordChar(c) == c \in LowerLetters \cup UpperLetters \cup AsciiDigits
                         \cup {"_", "U0130", "U00B2"}

\* \s of a str pattern, and the separators of str.split() without arguments.
IsSpace(c) == c \in {" ", "\n", "\t"}

\* str.isdigit() of one character: SUPERSCRIPT TWO is a digit to isdigit().
IsDigitChar(c) == c \in AsciiDigits \cup {"U00B2"}

\* str.lower() of one character.  Full case mapping: U+0130 lowers to "i"
\* followed by U+0307.
LowerChar(c) ==
  IF c \in UpperLetters THEN <<ToLower[c]>>
  ELSE IF c = "U0130" THEN <<"i", "U0307">>
  ELSE <<c>>

(***************************************************************************)
(* String helpers                                                          *)
(***************************************************************************)
RECURSIVE Lower(_)
Lower(s) == IF s = <<>> THEN <<>> ELSE LowerChar(Head(s)) \o Lower(Tail(s))

\* re.sub(r'[^\w\s]', '', s)
StripPunct(s) == SelectSeq(s, LAMBDA c : IsWordChar(c) \/ IsSpace(c))

\* s.split(): the maximal runs of non-whitespace characters, in order.
RECURSIVE SplitFrom(_, _, _)
SplitFrom(s, cur, acc) ==
  IF s = <<>> THEN (IF cur = <<>> THEN acc ELSE Append(acc, cur))
  ELSE IF IsSpace(Head(s))
       THEN SplitFrom(Tail(s), <<>>, IF cur = <<>> THEN acc ELSE Append(acc, cur))
       ELSE SplitFrom(Tail(s), Append(cur, Head(s)), acc)

Split(s) == SplitFrom(s, <<>>, <<>>)

\* s.split(sep) for a one-character sep: empty fields are kept.
RECURSIVE SplitOnFrom(_, _, _, _)
SplitOnFrom(s, sep, cur, acc) ==
  IF s = <<>> THEN Append(acc, cur)
  ELSE IF Head(s) = sep
       THEN SplitOnFrom(Tail(s), sep, <<>>, Append(acc, cur))
       ELSE SplitOnFrom(Tail(s), sep, Append(cur, Head(s)), acc)

SplitOn(s, sep) == SplitOnFrom(s, sep, <<>>, <<>>)

\* sep.join(parts)
RECURSIVE Join(_, _)
Join(parts, sep) ==
  IF parts = <<>> THEN <<>>
  ELSE IF Len(parts) = 1 THEN parts[1]
  ELSE parts[1] \o sep \o Join(Tail(parts), sep)

Range(f) == {f[i] : i \in DOMAIN f}

(***************************************************************************)
(* 3. HELPER: NAME MATCHING                                                *)
(***************************************************************************)
\* normalize(name): set(re.sub(r'[^\w\s]', '', str(name)).lower().split())
normalize(n) == Range(Split(Lower(StripPunct(n))))

\* The overlap find_match asks for: len(r_parts.intersection(s_parts)) >= 2
MinOverlap == 2

StatsRow(name, country, g, a, p) ==
  [Player_Name |-> name, Country |-> country, Goals |-> g, Assists |-> a, Points |-> p]

\* for idx, row in stats_df.iterrows(): the scan from row k on.
RECURSIVE find_match_scan(_, _, _)
find_match_scan(r_parts, df, k) ==
  IF k > Len(df) THEN None
  ELSE IF Cardinality(r_parts \cap normalize(df[k].Player_Name)) >= MinOverlap
       THEN df[k]
       ELSE find_match_scan(r_parts, df, k + 1)

\* The first row, in table order, whose index is in the set Q; None if Q is empty.
FirstOf(df, Q) ==
  IF Q = {} THEN None ELSE df[CHOOSE k \in Q : \A j \in Q : k <= j]

\* find_match as it would be with a best-overlap rule: among the rows that
\* share two tokens, the one that shares most.
find_match_best(r_name, df) ==
  LET r     == normalize(r_name)
      ov(k) == Cardinality(r \cap normalize(df[k].Player_Name))
      Q     == {k \in 1..Len(df) : ov(k) >= MinOverlap}
  IN  FirstOf(df, {k \in Q : \A j \in Q : ov(k) >= ov(j)})

\* find_match as it would be with the threshold off by one.
find_match_one(r_name, df) ==
  LET r == normalize(r_name)
  IN  FirstOf(df, {k \in 1..Len(df) :
                     Cardinality(r \cap normalize(df[k].Player_Name)) >= MinOverlap - 1})

\* find_match as it would be with a shortcut for a row that carries the very
\* same name.
find_match_identical(r_name, df) ==
  LET r == normalize(r_name)
  IN  FirstOf(df, {k \in 1..Len(df) :
                     \/ df[k].Player_Name = r_name
                     \/ Cardinality(r \cap normalize(df[k].Player_Name)) >= MinOverlap})

find_match(r_name, df) == find_match_scan(normalize(r_name), df, 1)

(***************************************************************************)
(* 2. DATA SOURCE: HARDCODED STARTER PACK                                  *)
(***************************************************************************)
get_starter_pack ==
  <<
    StatsRow(<<"M","c","D","A","V","I","D"," ","C","o","n","n","o","r">>,
             "CAN", 3, 8, 11),
    StatsRow(<<"C","R","O","S","B","Y"," ","S","i","d","n","e","y">>,
             "CAN", 2, 4, 6),
    StatsRow(<<"M","A","C","K","I","N","N","O","N"," ","N","a","t","h","a","n">>,
             "CAN", 2, 3, 5),
    StatsRow(<<"M","A","K","A","R"," ","C","a","l","e">>,
             "CAN", 1, 4, 5),
    StatsRow(<<"B","E","D","A","R","D"," ","C","o","n","n","o","r">>,
             "CAN", 2, 2, 4),
    StatsRow(<<"P","O","I","N","T"," ","B","r","a","y","d","e","n">>,
             "CAN", 3, 1, 4),
    StatsRow(<<"M","A","T","T","H","E","W","S"," ","A","u","s","t","o","n">>,
             "USA", 3, 2, 5),
    StatsRow(<<"H","U","G","H","E","S"," ","J","a","c","k">>,
             "USA", 1, 4, 5),
    StatsRow(<<"T","K","A","C","H","U","K"," ","M","a","t","t","h","e","w">>,
             "USA", 2, 3, 5),
    StatsRow(<<"F","O","X"," ","A","d","a","m">>,
             "USA", 0, 4, 4),
    StatsRow(<<"S","L","A","F","K","O","V","S","K","Y"," ","J","u","r","a","j">>,
             "SVK", 4, 2, 6),
    StatsRow(<<"P","A","S","T","R","N","A","K"," ","D","a","v","i","d">>,
             "CZE", 2, 3, 5),
    StatsRow(<<"K","U","C","H","E","R","O","V"," ","N","i","k","i","t","a">>,
             "AIN", 3, 4, 7),
    StatsRow(<<"K","A","P","R","I","Z","O","V"," ","K","i","r","i","l","l">>,
             "AIN", 4, 1, 5),
    StatsRow(<<"R","A","N","T","A","N","E","N"," ","M","i","k","k","o">>,
             "FIN", 2, 2, 4),
    StatsRow(<<"J","O","S","I"," ","R","o","m","a","n">>,
             "SUI", 1, 3, 4)
  >>

(***************************************************************************)
(* 1. ROSTER LOADER                                                        *)
(***************************************************************************)
junk_names ==
  { <<"D","r","a","f","t">>, <<"T","r","a","d","e">>, <<"B","e","n","c","h">>,
    <<"S","l","o","t">>, <<"P","l","a","y","e","r">>, <<"A","c","q">>,
    <<"F","r","e","e"," ","A","g","e","n","c","y">>,
    <<"W","a","i","v","e","r","s">> }

\* df['Player_Name'].str.len() > 2
MinNameLen == 2

RosterRow(team, name) == [Fantasy_Team |-> team, Player_Name |-> name]

\* The frame load_roster() returns: empty when the file is missing, else the
\* rows whose name is no junk name and is longer than two characters.
load_roster(file) ==
  IF ~file.exists THEN <<>>
  ELSE SelectSeq(file.rows, LAMBDA r : r.Player_Name \notin junk_names
                                       /\ Len(r.Player_Name) > MinNameLen)

(***************************************************************************)
(* MERGE LOGIC                                                             *)
(***************************************************************************)
\* The placeholder the no-match branch writes into "Olympic_Name".
NoMatchName == <<"-">>

\* merged_row as it would be with the Goals and Assists columns mixed up.
merged_row_swapped(r, m) ==
  IF m # None
  THEN [Fantasy_Team |-> r.Fantasy_Team, Player |-> r.Player_Name,
        Olympic_Name |-> m.Player_Name,
        Goals |-> m.Assists, Assists |-> m.Goals, Points |-> m.Points]
  ELSE [Fantasy_Team |-> r.Fantasy_Team, Player |-> r.Player_Name,
        Olympic_Name |-> NoMatchName,
        Goals |-> 0, Assists |-> 0, Points |-> 0]

\* The dict the loop body appends for roster row r, given the match m.
merged_row(r, m) ==
  IF m # None
  THEN [Fantasy_Team |-> r.Fantasy_Team, Player |-> r.Player_Name,
        Olympic_Name |-> m.Player_Name,
        Goals |-> m.Goals, Assists |-> m.Assists, Points |-> m.Points]
  ELSE [Fantasy_Team |-> r.Fantasy_Team, Player |-> r.Player_Name,
        Olympic_Name |-> NoMatchName,
        Goals |-> 0, Assists |-> 0, Points |-> 0]

\* merge_append as it would be if only matched players were kept.
merge_append_matched(data, r, m) ==
  IF m # None THEN Append(data, merged_row(r, m)) ELSE data

\* merged_data after the loop body ran for roster row r.
merge_append(data, r, m) == Append(data, merged_row(r, m))

(***************************************************************************)
(* 1. LEADERBOARD                                                          *)
(***************************************************************************)
\* The collation order of the team names the model uses.
TeamOrder == <<"A", "B", "C">>

RECURSIVE SumOf(_, _, _)
SumOf(rows, team, col) ==
  IF rows = <<>> THEN 0
  ELSE (IF Head(rows).Fantasy_Team = team THEN Head(rows)[col] ELSE 0)
       + SumOf(Tail(rows), team, col)

\* groupby_sum as it would be with .last() in the place of .sum().
groupby_last(rows) ==
  LET present == {rows[i].Fantasy_Team : i \in DOMAIN rows}
      keys    == SelectSeq(TeamOrder, LAMBDA t : t \in present)
      last(t) == rows[CHOOSE i \in DOMAIN rows :
                        /\ rows[i].Fantasy_Team = t
                        /\ \A j \in DOMAIN rows : rows[j].Fantasy_Team = t => j <= i]
  IN  [k \in 1..Len(keys) |->
         [Fantasy_Team |-> keys[k],
          Goals   |-> last(keys[k]).Goals,
          Assists |-> last(keys[k]).Assists,
          Points  |-> last(keys[k]).Points]]

\* final_df.groupby("Fantasy_Team")[["Goals", "Assists", "Points"]].sum():
\* one row per team, the rows in the sorted order of the team names
\* (groupby sorts its keys).
groupby_sum(rows) ==
  LET present == {rows[i].Fantasy_Team : i \in DOMAIN rows}
      keys    == SelectSeq(TeamOrder, LAMBDA t : t \in present)
  IN  [k \in 1..Len(keys) |->
         [Fantasy_Team |-> keys[k],
          Goals   |-> SumOf(rows, keys[k], "Goals"),
          Assists |-> SumOf(rows, keys[k], "Assists"),
          Points  |-> SumOf(rows, keys[k], "Points")]]

IndexPerms(n) == {p \in [1..n -> 1..n] : \A i, j \in 1..n : p[i] = p[j] => i = j}

\* frame.sort_values("Points", ascending=False): the default sort kind is
\* quicksort, which promises no order among rows of equal Points, so every
\* arrangement with non-increasing Points is a possible outcome.
sort_values_desc(frame) ==
  { [k \in 1..Len(frame) |-> frame[p[k]]] :
      p \in { q \in IndexPerms(Len(frame)) :
                \A k \in 1..(Len(frame) - 1) :
                   frame[q[k]].Points >= frame[q[k + 1]].Points } }

(***************************************************************************)
(* MANUAL UPDATE SECTION                                                   *)
(***************************************************************************)
DigitVal ==
  ("0" :> 0) @@ ("1" :> 1) @@ ("2" :> 2) @@ ("3" :> 3) @@ ("4" :> 4) @@
  ("5" :> 5) @@ ("6" :> 6) @@ ("7" :> 7) @@ ("8" :> 8) @@ ("9" :> 9)

\* tok.isdigit()
isdigit(tok) == tok # <<>> /\ \A i \in DOMAIN tok : IsDigitChar(tok[i])

\* Whether int(tok) returns for a token isdigit() accepted, or raises
\* ValueError: int() reads decimal digits and not SUPERSCRIPT TWO.  (Under the
\* isdigit() guard only the last part is sure to be digits; the two parts
\* before it may be anything.)
int_ok(tok) ==
  LET body == IF tok # <<>> /\ Head(tok) \in {"+", "-"} THEN Tail(tok) ELSE tok
  IN  /\ body # <<>>
      /\ \A i \in DOMAIN body : body[i] \in AsciiDigits \cup {"_"}
      /\ body[1] # "_" /\ body[Len(body)] # "_"
      /\ \A i \in 1..(Len(body) - 1) : ~(body[i] = "_" /\ body[i + 1] = "_")

RECURSIVE DecimalValue(_, _)
DecimalValue(ds, acc) ==
  IF ds = <<>> THEN acc
  ELSE DecimalValue(Tail(ds), IF Head(ds) = "_" THEN acc ELSE 10 * acc + DigitVal[Head(ds)])

\* int(tok), where int_ok(tok)
int(tok) ==
  IF Head(tok) = "-" THEN 0 - DecimalValue(Tail(tok), 0)
  ELSE IF Head(tok) = "+" THEN DecimalValue(Tail(tok), 0)
  ELSE DecimalValue(tok, 0)

\* len(parts) > 4
MinParts == 4
\* len(name) > 3
MinPasteNameLen == 3

\* The rows one line of the paste adds to new_rows: none or one.
parse_line(line) ==
  LET parts == Split(line)
      n     == Len(parts)
  IN  IF n > MinParts /\ isdigit(parts[n])
      THEN IF int_ok(parts[n]) /\ int_ok(parts[n - 1]) /\ int_ok(parts[n - 2])
           THEN LET name == Join(SubSeq(parts, 2, n - 4), <<" ">>)
                IN  IF Len(name) > MinPasteNameLen
                    THEN << StatsRow(name, "Update", int(parts[n - 2]),
                                     int(parts[n - 1]), int(parts[n])) >>
                    ELSE <<>>
           ELSE <<>>
      ELSE <<>>

RECURSIVE parse_lines(_)
parse_lines(lines) ==
  IF lines = <<>> THEN <<>> ELSE parse_line(Head(lines)) \o parse_lines(Tail(lines))

\* new_rows after the loop over raw_paste.split('\n')
parse_paste(text) == parse_lines(SplitOn(text, "\n"))

\* if 'stats_db' not in st.session_state: st.session_state['stats_db'] = get_starter_pack()
init_session(state) ==
  IF "stats_db" \in DOMAIN state THEN state ELSE [stats_db |-> get_starter_pack]

\* store_update as it would be if the parsed rows were added to the table.
store_update_append(state, rows) == [stats_db |-> state.stats_db \o rows]

\* st.session_state['stats_db'] = pd.DataFrame(new_rows)
store_update(state, rows) == [stats_db |-> rows]

(***************************************************************************)
(* Inputs                                                                  *)
(***************************************************************************)
BoundedSeq(S, n) == UNION {[1..k -> S] : k \in 0..n}

\* rows of fantasy_roster.csv
MaxRosterRows == 2
\* lines of a pasted table
MaxPasteLines == 2
\* characters of a name given to normalize
MaxNameLen == 3
\* calls of normalize in a round trip
MaxNormCalls == 2
\* words of a name given to find_match
MaxNameTokens == 3
\* rows of a table given to find_match
MaxTableRows == 2
\* merged rows given to the leaderboard
MaxMergedRows == 3

\* Rows a fantasy_roster.csv is made of: a player of the starter pack, a
\* player only an update brings, and a row the loader drops.
CsvRowPool ==
  { RosterRow("B", <<"C","o","n","n","o","r"," ","M","c","D","a","v","i","d">>),
    RosterRow("A", <<"A","b"," ","C","d">>),
    RosterRow("B", <<"D","r","a","f","t">>) }

CsvFiles ==
  { [exists |-> FALSE, rows |-> <<>>] }
    \cup { [exists |-> TRUE, rows |-> s] : s \in BoundedSeq(CsvRowPool, MaxRosterRows) }

\* Lines of a pasted table: two good rows, a header, a row whose name is too
\* short, and a row ending in a digit that int() rejects.
PasteLinePool ==
  { <<"1","."," ","A","b"," ","C","d"," ","X"," ","1"," ","2"," ","3">>,
    <<"2","."," ","M","c","D","a","v","i","d"," ","C","o","n","n","o","r"," ","C"," ","2"," ","0"," ","2">>,
    <<"R","k"," ","N","a","m","e"," ","T"," ","G"," ","A"," ","P">>,
    <<"3","."," ","F","o","x"," ","U"," ","0"," ","4"," ","4">>,
    <<"5","."," ","A","b"," ","C","d"," ","X"," ","1"," ","1"," ","U00B2">> }

Pastes == { Join(ls, <<"\n">>) : ls \in BoundedSeq(PasteLinePool, MaxPasteLines) }

\* Characters of the names given to normalize.
NormAlphabet == {"a", "B", "1", "_", "-", " ", "U0130"}

\* Words of the names given to find_match, and the names of its tables.
MatchWords == { <<"a">>, <<"B">>, <<"c", ".">> }

MatchNames == { Join(ws, <<" ">>) : ws \in BoundedSeq(MatchWords, MaxNameTokens) }

TableNamePool ==
  { <<"a">>, <<"B"," ","B">>, <<"a"," ","b">>, <<"b"," ","c">>,
    <<"C",","," ","b",","," ","a">> }

MatchTables ==
  { [k \in DOMAIN ns |-> StatsRow(ns[k], "X", k, 2 * k, 3 * k)] :
      ns \in BoundedSeq(TableNamePool, MaxTableRows) }

\* The rosters and stats tables the merge loop is started on.  Every name is
\* one the loader keeps (longer than two characters, no junk name).
MergeRowPool ==
  { RosterRow("B", <<"a"," ","B">>),
    RosterRow("A", <<"B"," ","c","."," ","a">>),
    RosterRow("A", <<"a"," ","a">>) }

MergeRosters == BoundedSeq(MergeRowPool, MaxRosterRows) \ {<<>>}

\* Merged rows given to the leaderboard.
MergedRowPool ==
  { [Fantasy_Team |-> tm, Player |-> <<"A","b"," ","C","d">>,
     Olympic_Name |-> <<"A","b"," ","C","d">>,
     Goals |-> s[1], Assists |-> s[2], Points |-> s[3]] :
      tm \in {"A", "B", "C"}, s \in { <<0, 0, 0>>, <<2, 1, 3>>, <<1, 4, 5>>, <<4, 6, 10>> } }

(***************************************************************************)
(* The script and its steps                                                *)
(***************************************************************************)
AppIdle ==
  /\ session_state = <<>>
  /\ csv_file = [exists |-> FALSE, rows |-> <<>>]
  /\ roster = <<>>
  /\ pc = "start"
  /\ row_i = 1
  /\ merged_data = <<>>
  /\ match = None
  /\ standings = <<>>
  /\ raw_paste = <<>>
  /\ new_rows = <<>>

NormIdle ==
  /\ norm_in = <<>>
  /\ norm_out = {}
  /\ norm_prev = {}
  /\ norm_pc = "ret"
  /\ norm_calls = 0

MatchIdle ==
  /\ fm_name = <<>>
  /\ fm_table = <<>>
  /\ fm_result = None
  /\ fm_pc = "ret"

\* A fresh session: nothing in the session state, the roster file as the user
\* left it, the script about to run.
Init ==
  /\ session_state = <<>>
  /\ csv_file \in CsvFiles
  /\ roster = <<>>
  /\ pc = "start"
  /\ row_i = 1
  /\ merged_data = <<>>
  /\ match = None
  /\ standings = <<>>
  /\ raw_paste = <<>>
  /\ new_rows = <<>>
  /\ NormIdle
  /\ MatchIdle

\* A run of the script from its top to the merge loop: the session state is
\* initialised, the roster loaded; an empty roster ends the run with a warning.
\* The script's own variables start afresh in every run.
Rerun ==
  /\ pc = "start"
  /\ session_state' = init_session(session_state)
  /\ roster' = load_roster(csv_file)
  /\ pc' = IF roster' = <<>> THEN "start" ELSE "merge"
  /\ row_i' = 1
  /\ merged_data' = <<>>
  /\ match' = None
  /\ standings' = <<>>
  /\ raw_paste' = <<>>
  /\ new_rows' = <<>>
  /\ UNCHANGED csv_file
  /\ UNCHANGED <<normVars, matchVars>>

\* One pass of the body of: for _, row in roster.iterrows()
MergeStep ==
  /\ pc = "merge"
  /\ row_i <= Len(roster)
  /\ match' = find_match(roster[row_i].Player_Name, session_state.stats_db)
  /\ merged_data' = merge_append(merged_data, roster[row_i], match')
  /\ row_i' = row_i + 1
  /\ UNCHANGED <<session_state, csv_file, roster, pc, standings, raw_paste, new_rows>>
  /\ UNCHANGED <<normVars, matchVars>>

\* The loop is over: final_df is built and the standings are computed.
Aggregate ==
  /\ pc = "merge"
  /\ row_i > Len(roster)
  /\ standings' \in sort_values_desc(groupby_sum(merged_data))
  /\ pc' = "widgets"
  /\ UNCHANGED <<session_state, csv_file, roster, row_i, merged_data, match,
                 raw_paste, new_rows>>
  /\ UNCHANGED <<normVars, matchVars>>

\* "Process Update" was clicked with some text in the paste area: the button
\* handler parses it, stores the rows if there are any and reruns the script.
ProcessUpdate ==
  /\ pc = "widgets"
  /\ \E text \in Pastes :
       /\ raw_paste' = text
       /\ new_rows' = parse_paste(text)
  /\ session_state' = IF new_rows' # <<>>
                      THEN store_update(session_state, new_rows')
                      ELSE session_state
  /\ pc' = "start"
  /\ UNCHANGED <<csv_file, roster, row_i, merged_data, match, standings>>
  /\ UNCHANGED <<normVars, matchVars>>

\* The run ends without a click on the button; the next interaction reruns.
NoClick ==
  /\ pc = "widgets"
  /\ pc' = "start"
  /\ UNCHANGED <<session_state, csv_file, roster, row_i, merged_data, match,
                 standings, raw_paste, new_rows>>
  /\ UNCHANGED <<normVars, matchVars>>

Next == Rerun \/ MergeStep \/ Aggregate \/ ProcessUpdate \/ NoClick

Spec == Init /\ [][Next]_vars

(***************************************************************************)
(* normalize, called on its own                                            *)
(***************************************************************************)
InitNorm ==
  /\ AppIdle
  /\ MatchIdle
  /\ norm_in \in BoundedSeq(NormAlphabet, MaxNameLen)
  /\ norm_out = {}
  /\ norm_prev = {}
  /\ norm_pc = "call"
  /\ norm_calls = 0

CallNormalize ==
  /\ norm_pc = "call"
  /\ norm_out' = normalize(norm_in)
  /\ norm_prev' = norm_out
  /\ norm_pc' = "ret"
  /\ norm_calls' = norm_calls + 1
  /\ UNCHANGED norm_in
  /\ UNCHANGED <<appVars, matchVars>>

\* The tokens of the last result, joined with single spaces in some order,
\* become the next argument.
Rejoin ==
  /\ norm_pc = "ret"
  /\ norm_calls < MaxNormCalls
  /\ \E p \in IndexPerms(Cardinality(norm_out)) :
       \E toks \in [1..Cardinality(norm_out) -> norm_out] :
          /\ \A i, j \in DOMAIN toks : toks[i] = toks[j] => i = j
          /\ norm_in' = Join([k \in DOMAIN toks |-> toks[p[k]]], <<" ">>)
  /\ norm_pc' = "call"
  /\ UNCHANGED <<norm_out, norm_prev, norm_calls>>
  /\ UNCHANGED <<appVars, matchVars>>

NextNorm == CallNormalize \/ Rejoin

SpecNorm == InitNorm /\ [][NextNorm]_vars

(***************************************************************************)
(* find_match, called on its own                                           *)
(***************************************************************************)
InitMatch ==
  /\ AppIdle
  /\ NormIdle
  /\ fm_name \in MatchNames
  /\ fm_table \in MatchTables
  /\ fm_result = None
  /\ fm_pc = "call"

CallFindMatch ==
  /\ fm_pc = "call"
  /\ fm_result' = find_match(fm_name, fm_table)
  /\ fm_pc' = "ret"
  /\ UNCHANGED <<fm_name, fm_table>>
  /\ UNCHANGED <<appVars, normVars>>

NextMatch == CallFindMatch

SpecMatch == InitMatch /\ [][NextMatch]_vars

(***************************************************************************)
(* The merge loop, started on a given roster and stats table               *)
(***************************************************************************)
InitMerge ==
  /\ session_state \in { [stats_db |-> s] : s \in MatchTables }
  /\ roster \in MergeRosters
  /\ csv_file = [exists |-> TRUE, rows |-> roster]
  /\ pc = "merge"
  /\ row_i = 1
  /\ merged_data = <<>>
  /\ match = None
  /\ standings = <<>>
  /\ raw_paste = <<>>
  /\ new_rows = <<>>
  /\ NormIdle
  /\ MatchIdle

NextMerge == MergeStep \/ Aggregate

SpecMerge == InitMerge /\ [][NextMerge]_vars

(***************************************************************************)
(* The leaderboard, computed from given merged rows                        *)
(***************************************************************************)
\* The script at the end of its merge loop, with some merged rows built.
InitAgg ==
  /\ session_state = [stats_db |-> get_starter_pack]
  /\ csv_file = [exists |-> TRUE, rows |-> <<>>]
  /\ merged_data \in BoundedSeq(MergedRowPool, MaxMergedRows) \ {<<>>}
  /\ roster = [k \in DOMAIN merged_data |->
                 RosterRow(merged_data[k].Fantasy_Team, merged_data[k].Player)]
  /\ pc = "merge"
  /\ row_i = Len(merged_data) + 1
  /\ match = None
  /\ standings = <<>>
  /\ raw_paste = <<>>
  /\ new_rows = <<>>
  /\ NormIdle
  /\ MatchIdle

NextAgg == Aggregate

SpecAgg == InitAgg /\ [][NextAgg]_vars

(***************************************************************************)
(* Properties                                                              *)
(***************************************************************************)
\* How many normalized tokens two names share.
Overlap(a, b) == Cardinality(normalize(a) \cap normalize(b))

\* The indexes of the rows of df that share at least two tokens with nm.
Qualifying(nm, df) == {k \in 1..Len(df) : Overlap(nm, df[k].Player_Name) >= 2}

Least(S) == CHOOSE x \in S : \A y \in S : x <= y

\* The sum of column col over the rows of team tm, row by row.
RECURSIVE TotalUpTo(_, _, _, _)
TotalUpTo(rows, tm, col, n) ==
  IF n = 0 THEN 0
  ELSE TotalUpTo(rows, tm, col, n - 1)
       + (IF rows[n].Fantasy_Team = tm THEN rows[n][col] ELSE 0)

\* The index at which team tm first appears in rows.
FirstSeen(rows, tm) == Least({i \in DOMAIN rows : rows[i].Fantasy_Team = tm})

\* What a null text would be: no text, as a text holds one-character strings.
NoText == <<"None">>

\* C1: the merge loop appends exactly one merged row per roster row it has
\* visited, so len(R) rows when it is over, and the i-th merged row carries the
\* team and the roster name of the i-th roster row, matched or not.
C1_OneMergedRowPerEntry ==
  pc \in {"merge", "widgets"} =>
    /\ Len(merged_data) = row_i - 1
    /\ pc = "widgets" => Len(merged_data) = Len(roster)
    /\ \A k \in DOMAIN merged_data :
         /\ k <= Len(roster)
         /\ merged_data[k].Fantasy_Team = roster[k].Fantasy_Team
         /\ merged_data[k].Player = roster[k].Player_Name

\* The loop is over on a roster of two rows, the first without a match and
\* the second with one.
C1_Witness ==
  /\ pc = "widgets"
  /\ Len(roster) = 2
  /\ Len(merged_data) = 2
  /\ Qualifying(roster[1].Player_Name, session_state.stats_db) = {}
  /\ Qualifying(roster[2].Player_Name, session_state.stats_db) # {}

\* The loop is over on an empty stats table.
C1_WitnessEmptyStats ==
  /\ pc = "widgets"
  /\ session_state.stats_db = <<>>
  /\ Len(merged_data) = Len(roster)

\* C2: find_match returns the row at the least index among the rows sharing at
\* least two tokens with the roster name, also when a later row shares more,
\* and None exactly when no row shares two.
C2_FirstQualifyingWins ==
  fm_pc = "ret" =>
    LET Q == Qualifying(fm_name, fm_table)
    IN  IF Q = {} THEN fm_result = None
        ELSE fm_result = fm_table[Least(Q)]

\* find_match returned the first of two qualifying rows although the second
\* shares more tokens.
C2_Witness ==
  /\ fm_pc = "ret"
  /\ Len(fm_table) = 2
  /\ Qualifying(fm_name, fm_table) = {1, 2}
  /\ Overlap(fm_name, fm_table[2].Player_Name) > Overlap(fm_name, fm_table[1].Player_Name)
  /\ fm_result = fm_table[1]
  /\ fm_table[1] # fm_table[2]

\* C3: when exactly one row of the stats table shares at least two tokens with
\* a roster name, the merged row of that roster entry carries that row's goals,
\* assists, points and player name (in the run that merged it, before a click
\* stores another table).
C3_UniqueMatchCopied ==
  \A k \in DOMAIN merged_data :
    (pc \in {"merge", "widgets"} /\ k <= Len(roster)) =>
      LET Q == Qualifying(roster[k].Player_Name, session_state.stats_db)
      IN  Cardinality(Q) = 1 =>
            LET s == session_state.stats_db[Least(Q)]
            IN  /\ merged_data[k].Goals = s.Goals
                /\ merged_data[k].Assists = s.Assists
                /\ merged_data[k].Points = s.Points
                /\ merged_data[k].Olympic_Name = s.Player_Name

\* A roster entry whose only qualifying row is the second of the table has
\* been merged.
C3_Witness ==
  /\ pc = "merge"
  /\ Len(merged_data) >= 1
  /\ Qualifying(roster[1].Player_Name, session_state.stats_db) = {2}
  /\ merged_data[1].Points = session_state.stats_db[2].Points
  /\ merged_data[1].Points > 0

C5_FewTokensNeverMatch ==
  (fm_pc = "ret" /\ Cardinality(normalize(fm_name)) < 2) => fm_result = None

\* find_match returned None for a name of one repeated token although the
\* table holds the very same name.
C5_Witness ==
  /\ fm_pc = "ret"
  /\ Len(fm_name) > 1
  /\ Cardinality(normalize(fm_name)) = 1
  /\ \E k \in DOMAIN fm_table : fm_table[k].Player_Name = fm_name
  /\ fm_result = None

\* C6: the standings hold one entry per team of the merged rows, each with the
\* sums of that team's goals, assists and points, in non-increasing order of
\* total points.
C6_StandingsSumAndOrder ==
  pc = "widgets" =>
    LET teams == {merged_data[i].Fantasy_Team : i \in DOMAIN merged_data}
        n     == Len(merged_data)
    IN  /\ Len(standings) = Cardinality(teams)
        /\ {standings[k].Fantasy_Team : k \in DOMAIN standings} = teams
        /\ \A k \in DOMAIN standings :
             /\ standings[k].Goals = TotalUpTo(merged_data, standings[k].Fantasy_Team, "Goals", n)
             /\ standings[k].Assists = TotalUpTo(merged_data, standings[k].Fantasy_Team, "Assists", n)
             /\ standings[k].Points = TotalUpTo(merged_data, standings[k].Fantasy_Team, "Points", n)
        /\ \A k \in 1..(Len(standings) - 1) :
             standings[k].Points >= standings[k + 1].Points

\* The rows A:5, A:3, B:10 gave the standings B:10, A:8.
C6_Witness ==
  /\ pc = "widgets"
  /\ Len(merged_data) = 3
  /\ merged_data[1].Fantasy_Team = "A" /\ merged_data[1].Points = 5
  /\ merged_data[2].Fantasy_Team = "A" /\ merged_data[2].Points = 3
  /\ merged_data[3].Fantasy_Team = "B" /\ merged_data[3].Points = 10
  /\ standings = << [Fantasy_Team |-> "B", Goals |-> 4, Assists |-> 6, Points |-> 10],
                    [Fantasy_Team |-> "A", Goals |-> 3, Assists |-> 5, Points |-> 8] >>

\* C7: teams with equal total points stand in the order in which they first
\* appear in the merged rows.
C7_TiesInFirstSeenOrder ==
  pc = "widgets" =>
    \A j, k \in DOMAIN standings :
      (j < k /\ standings[j].Points = standings[k].Points) =>
        FirstSeen(merged_data, standings[j].Fantasy_Team)
          < FirstSeen(merged_data, standings[k].Fantasy_Team)

\* C8: every token normalize returns is non-empty and made of lower-case
\* letters and digits only.
C8_TokensLowerAlnum ==
  norm_pc = "ret" =>
    \A tok \in norm_out :
      /\ tok # <<>>
      /\ \A i \in DOMAIN tok : tok[i] \in LowerLetters \cup AsciiDigits

\* C9: normalizing the tokens of a result, joined with single spaces in any
\* order, gives that result again.
C9_NormalizeIdempotent ==
  (norm_pc = "ret" /\ norm_calls >= 2) => norm_out = norm_prev

\* C10: the session's stats table is set to the starter pack only when it is
\* absent; afterwards it changes only in a "Process Update" click that parsed
\* at least one row, and then it is exactly the parsed rows; a click that
\* parsed no row leaves it as it was.
C10_StatsTableFrame ==
  [][ /\ ("stats_db" \notin DOMAIN session_state /\ session_state' # session_state)
         => session_state' = [stats_db |-> get_starter_pack]
      /\ ("stats_db" \in DOMAIN session_state /\ session_state' # session_state)
         => /\ pc = "widgets"
            /\ new_rows' # <<>>
            /\ new_rows' = parse_paste(raw_paste')
            /\ session_state' = [stats_db |-> new_rows']
      /\ (pc = "widgets" /\ new_rows' = <<>>) => session_state' = session_state
    ]_vars

\* A click on a paste of two lines, one of them a good row, has just stored
\* exactly that row as the stats table.
C10_Witness ==
  /\ pc = "start"
  /\ Len(new_rows) = 1
  /\ session_state = [stats_db |-> new_rows]
  /\ new_rows[1].Country = "Update"
  /\ Len(SplitOn(raw_paste, "\n")) = 2

====
